---- MODULE Spec2Model ----
(***************************************************************************)
(* DNS application-level fragmentation proxies (BII-Lab).                  *)
(*                                                                         *)
(* ServerProxy (src/unnamed/part_000): strips the capability option from   *)
(* a query, exchanges it with the backend and splits the reply with        *)
(* frag().  ClientProxy (src/ClientProxy/ClientProxy.go): marks the query, *)
(* collects the fragments and stitches them back together.                 *)
(*                                                                         *)
(* A DNS message is a record                                               *)
(*   [Id, Response, Truncated, Rcode, Question, Answer, Ns, Extra]         *)
(* and a resource record is a record                                       *)
(*   [Rrtype, name, size, UDPSize, Option]                                 *)
(* where size is the RR's encoded length (ordinary RRs), and UDPSize and   *)
(* Option are the OPT pseudo-RR's advertised size and option list.  An     *)
(* option is [Code, Data], Data a sequence of octets.                      *)
(***************************************************************************)
EXTENDS Integers, Sequences, FiniteSets, TLC

(***************************************************************************)
(* Program constants.                                                      *)
(***************************************************************************)
\* dns.EDNS0LOCALSTART (0xFDE9): the capability marker of a query.
CAP_CODE == 65001
\* dns.EDNS0LOCALSTART + 1: the fragment descriptor of a reply fragment.
FRAG_CODE == CAP_CODE + 1
\* the size limit of one fragment
MaxFragLen == 512
\* the UDP size the server proxy advertises to the backend
BackendUDPSize == 65535
\* the UDP size assumed for a stub that sent no OPT
DefaultUDPSize == 512
\* dns.RcodeServerFailure
RcodeServerFailure == 2
\* the number of values of Go's byte
ByteRange == 256

(***************************************************************************)
(* Bounds of the model.                                                    *)
(***************************************************************************)
\* most RRs (OPT not counted) in a backend reply drawn freely
MaxRR == 3
\* encoded length of the question section
QuestionSize == 15
\* the query ID of the transaction
QId == 7

\* encoded lengths of the RRs of a reply.  With an OPT without options a
\* fragment has 512 - 12 - 15 - 17 = 468 octets for RRs: four of 100 fit,
\* 368 and 100 fit exactly, two of 368 do not, 700 never fits.
RRSizes == {100, 368, 700}

(***************************************************************************)
(* Messages.                                                               *)
(***************************************************************************)
NoRR == [Rrtype |-> "nil", name |-> 0, size |-> 0, UDPSize |-> 0, Option |-> <<>>]

MkRR(n, s) == [Rrtype |-> "A", name |-> n, size |-> s, UDPSize |-> 0, Option |-> <<>>]

MkOPT(u, opts) == [Rrtype |-> "OPT", name |-> 0, size |-> 0, UDPSize |-> u, Option |-> opts]

\* new(dns.EDNS0_LOCAL) with the given code and data
LocalOpt(c, d) == [Code |-> c, Data |-> d]

\* an option of the standard range (a 4-octet payload), as a stub or a
\* backend may send
OtherOpt == [Code |-> 10, Data |-> <<1, 2, 3, 4>>]

NoMsg == [Id |-> -1, Response |-> FALSE, Truncated |-> FALSE, Rcode |-> 0,
          Question |-> <<>>, Answer |-> <<>>, Ns |-> <<>>, Extra |-> <<>>]

RECURSIVE SumSizes(_)
SumSizes(s) == IF s = <<>> THEN 0 ELSE Head(s) + SumSizes(Tail(s))

\* encoded length of one option: code, length, data
OptionLen(o) == 4 + Len(o.Data)

\* encoded length of one RR; the OPT pseudo-RR is 11 octets plus its options
RRLen(r) ==
  IF r.Rrtype = "OPT"
  THEN 11 + SumSizes([i \in DOMAIN r.Option |-> OptionLen(r.Option[i])])
  ELSE r.size

\* dns.Msg.Len(): header, question and the three RR sections
MsgLen(m) ==
  12 + SumSizes(m.Question)
     + SumSizes([i \in DOMAIN m.Answer |-> RRLen(m.Answer[i])])
     + SumSizes([i \in DOMAIN m.Ns |-> RRLen(m.Ns[i])])
     + SumSizes([i \in DOMAIN m.Extra |-> RRLen(m.Extra[i])])

\* positions of the OPT records of a section
OptPositions(s) == {i \in DOMAIN s : s[i].Rrtype = "OPT"}

\* dns.Msg.IsEdns0(): the OPT record of the additional section, or nil
IsEdns0(m) ==
  IF OptPositions(m.Extra) = {} THEN NoRR
  ELSE m.Extra[CHOOSE i \in OptPositions(m.Extra) :
                  \A j \in OptPositions(m.Extra) : i <= j]

\* a section without its OPT records
SelectSeqNonOpt(s) == SelectSeq(s, LAMBDA r : r.Rrtype # "OPT")

\* s without its element at position i (append(s[0:ofs], s[ofs+1:]...))
RemoveAt(s, i) == [j \in 1..(Len(s) - 1) |-> IF j < i THEN s[j] ELSE s[j + 1]]

\* Go's byte(n)
ToByte(n) == n % ByteRange

\* dns.Msg.SetEdns0(512, false): append a fresh OPT to the additional section
SetEdns0(m, u) == [m EXCEPT !.Extra = Append(@, MkOPT(u, <<>>))]

\* SRVFAIL: m.SetRcode(req, RcodeServerFailure) replies to req with no RRs
SRVFAIL(req) ==
  [Id |-> req.Id, Response |-> TRUE, Truncated |-> FALSE,
   Rcode |-> RcodeServerFailure, Question |-> req.Question,
   Answer |-> <<>>, Ns |-> <<>>, Extra |-> <<>>]

(***************************************************************************)
(* State.                                                                  *)
(***************************************************************************)
VARIABLES
  \* ServerProxy.ServeDNS and frag
  srv_in,                  \* the query as it reached the server proxy
  request,                 \* the handler's request (modified in place)
  spc,                     \* the server handler's position
  client_supports_appfrag,
  response,                \* the backend's reply (frag's argument)
  remaining_answer, remaining_ns, remaining_extra,
  edns0_rr,
  all_frags,
  frag_ret,                \* the value frag returned
  send_n,                  \* index of the next message of the send loop
  sent,                    \* the messages written to the requester, in order
  \* ClientProxy.ServeDNS
  stub_query,              \* the query as the stub sent it
  proxy_req,               \* the query sent upstream
  client_buf_size,
  cpc,                     \* the client handler's position
  conn,                    \* the upstream socket: "none", "open", "closed"
  num_frags,
  frags,                   \* map from sequence number to message
  rebuilt_reply,
  arrived,                 \* the matching-ID responses read so far (history)
  last,                    \* the latest matching-ID response read (history)
  err,                     \* the I/O that failed, if any (history)
  ignored,                 \* the responses to another QID read so far (history)
  out                      \* the messages written to the stub, in order

svars == <<srv_in, request, spc, client_supports_appfrag, response,
           remaining_answer, remaining_ns, remaining_extra, edns0_rr,
           all_frags, frag_ret, send_n, sent>>

cvars == <<stub_query, proxy_req, client_buf_size, cpc, conn, num_frags,
           frags, rebuilt_reply, arrived, last, err, ignored, out>>

\* two handlers of the client proxy running at the same time
VARIABLES
  hq,                      \* handler -> the stub's query it was invoked with
  hpc,                     \* handler -> its position
  hconn,                   \* handler -> the upstream socket it dialled (0: none)
  hnum,                    \* handler -> its num_frags
  hfrags,                  \* handler -> its frags map
  hread,                   \* handler -> the datagrams it has read (history)
  hout,                    \* handler -> the messages written to its stub
  wire,                    \* the queries on their way to the server proxy
  inbox                    \* socket -> the datagrams waiting to be read from it

tvars == <<hq, hpc, hconn, hnum, hfrags, hread, hout, wire, inbox>>

vars == <<svars, cvars, tvars>>

(***************************************************************************)
(* Inputs: queries and backend replies.                                    *)
(***************************************************************************)
\* a query with the given additional section
MkQuery(extra) ==
  [Id |-> QId, Response |-> FALSE, Truncated |-> FALSE, Rcode |-> 0,
   Question |-> <<QuestionSize>>, Answer |-> <<>>, Ns |-> <<>>, Extra |-> extra]

\* the option lists of a query's OPT: none, another option only, the
\* capability marker alone, after another option, and twice
QueryOptions ==
  {<<>>, <<OtherOpt>>, <<LocalOpt(CAP_CODE, <<>>)>>,
   <<OtherOpt, LocalOpt(CAP_CODE, <<>>)>>,
   <<LocalOpt(CAP_CODE, <<>>), OtherOpt, LocalOpt(CAP_CODE, <<>>)>>}

\* the queries that may reach the server proxy: without OPT, or with an OPT
\* carrying any of QueryOptions
ServerQueries ==
  {MkQuery(<<>>)} \cup {MkQuery(<<MkOPT(4096, o)>>) : o \in QueryOptions}

\* TC flag and RCODE of a backend reply
HeaderFlags == {<<FALSE, 0>>, <<TRUE, 3>>}

\* the OPT of a backend reply: none, without options, with one option.
\* The descriptor and capability codes belong to the two proxies only; a
\* backend does not send them.
BackendOpts == {NoRR, MkOPT(4096, <<>>), MkOPT(4096, <<OtherOpt>>)}

\* lengths of the Answer, Authority and Additional sections
SectionSplits ==
  {sp \in (0..MaxRR) \X (0..MaxRR) \X (0..MaxRR) : sp[1] + sp[2] + sp[3] <= MaxRR}

\* s with x placed after its first p elements
InsertAt(s, p, x) ==
  [j \in 1..(Len(s) + 1) |->
     IF j <= p THEN s[j] ELSE IF j = p + 1 THEN x ELSE s[j - 1]]

\* cnt RRs named from+1 .. from+cnt with the sizes sz gives them
MkSection(sz, from, cnt) == [i \in 1..cnt |-> MkRR(from + i, sz[from + i])]

\* the reply to req with section lengths sp, RR sizes sz, flags h, and the
\* OPT o (if any) after the first p RRs of the additional section
MkReply(req, sp, sz, h, o, p) ==
  LET extra == MkSection(sz, sp[1] + sp[2], sp[3]) IN
  [Id |-> req.Id, Response |-> TRUE, Truncated |-> h[1], Rcode |-> h[2],
   Question |-> req.Question,
   Answer |-> MkSection(sz, 0, sp[1]),
   Ns |-> MkSection(sz, sp[1], sp[2]),
   Extra |-> IF o = NoRR THEN extra ELSE InsertAt(extra, p, o)]

\* every reply of at most MaxRR RRs
FreeReplies(req) ==
  UNION {UNION {{MkReply(req, sp, sz, h, o, p) :
                   h \in HeaderFlags, o \in BackendOpts, p \in 0..sp[3]} :
                sz \in [1..(sp[1] + sp[2] + sp[3]) -> RRSizes]} :
         sp \in SectionSplits}

\* a reply of k answers none of which fits with another in one fragment
BulkReply(req, k) ==
  MkReply(req, <<k, 0, 0>>, [i \in 1..k |-> 368], <<FALSE, 0>>, MkOPT(4096, <<>>), 0)

\* the long replies: as many answers as a byte counts, one less, one more
BulkCounts == {ByteRange - 1, ByteRange, ByteRange + 1}

\* the replies the backend gives when both proxies run: only an OPT; one
\* answer and no OPT; one answer (one fragment); two answers, an authority
\* and an additional RR before the OPT (two fragments, the first closed for
\* answers and taking the authority RR); three answers (three fragments);
\* an answer that never fits; an answer that never fits behind one that does
FewReplies(req) ==
  {MkReply(req, <<0, 0, 0>>, <<>>, <<FALSE, 3>>, MkOPT(4096, <<>>), 0),
   MkReply(req, <<1, 0, 0>>, <<100>>, <<FALSE, 0>>, NoRR, 0),
   MkReply(req, <<1, 0, 0>>, <<100>>, <<TRUE, 0>>, MkOPT(4096, <<>>), 0),
   MkReply(req, <<2, 1, 1>>, <<368, 368, 100, 100>>, <<FALSE, 0>>, MkOPT(4096, <<>>), 1),
   MkReply(req, <<3, 0, 0>>, <<368, 368, 368>>, <<FALSE, 0>>, MkOPT(4096, <<OtherOpt>>), 0),
   MkReply(req, <<1, 0, 0>>, <<700>>, <<FALSE, 0>>, MkOPT(4096, <<>>), 0),
   MkReply(req, <<2, 0, 1>>, <<368, 700, 100>>, <<FALSE, 0>>, MkOPT(4096, <<>>), 0)}

\* the query of a client proxy whose stub sent an OPT without options
PlainCapQuery == MkQuery(<<MkOPT(4096, <<LocalOpt(CAP_CODE, <<>>)>>)>>)

\* the replies the backend may give the server proxy.  frag reads nothing
\* of the request, so every reply of the bounds is tried with one query
\* only, the plain capability query to a server proxy studied alone; the
\* other queries, and the queries of a client proxy that reassembles what
\* the server proxy sends, get the few replies above
Replies(req) ==
  IF cpc = "off" /\ srv_in = PlainCapQuery
  THEN FreeReplies(req) \cup {BulkReply(req, k) : k \in BulkCounts}
  ELSE FewReplies(req)

(***************************************************************************)
(* ServerProxy.ServeDNS: capability scan and backend exchange.             *)
(***************************************************************************)
\* offsets of the options with the given code
CodePositions(opts, c) == {i \in DOMAIN opts : opts[i].Code = c}

\* the least element of a non-empty set of integers
Least(S) == CHOOSE i \in S : \A j \in S : i <= j

\* the scan removing every capability option (the break of line 215 left
\* out)
ConsumeCapability_RemoveAll(req) ==
  LET ps == OptPositions(req.Extra) IN
  IF ps = {} THEN req
  ELSE LET at == Least(ps)
           cs == CodePositions(req.Extra[at].Option, CAP_CODE) IN
       IF cs = {} THEN req
       ELSE [req EXCEPT !.Extra[at] =
               [@ EXCEPT !.UDPSize = BackendUDPSize,
                         !.Option = SelectSeq(@, LAMBDA o : o.Code # CAP_CODE)]]

\* the scan raising the UDP size of any OPT, with or without the capability
\* option (line 211 moved out of the test of line 206)
ConsumeCapability_AlwaysRaise(req) ==
  LET ps == OptPositions(req.Extra) IN
  IF ps = {} THEN req
  ELSE LET at == Least(ps)
           cs == CodePositions(req.Extra[at].Option, CAP_CODE) IN
       [req EXCEPT !.Extra[at] =
          [@ EXCEPT !.UDPSize = BackendUDPSize,
                    !.Option = IF cs = {} THEN @ ELSE RemoveAt(@, Least(cs))]]

\* the scan of the request's OPT options (lines 203-218): at the first
\* CAP_CODE the UDP size becomes 65535 and that option is removed
ConsumeCapability(req) ==
  LET ps == OptPositions(req.Extra) IN
  IF ps = {} THEN req
  ELSE LET at == Least(ps)
           cs == CodePositions(req.Extra[at].Option, CAP_CODE) IN
       IF cs = {} THEN req
       ELSE [req EXCEPT !.Extra[at] =
               [@ EXCEPT !.UDPSize = BackendUDPSize,
                         !.Option = RemoveAt(@, Least(cs))]]

\* whether the scan finds a CAP_CODE option
HasCapability(req) ==
  /\ OptPositions(req.Extra) # {}
  /\ CodePositions(IsEdns0(req).Option, CAP_CODE) # {}

ServerConsume ==
  /\ spc = "serve"
  /\ client_supports_appfrag' = HasCapability(request)
  /\ request' = ConsumeCapability(request)
  /\ spc' = "exchange"
  /\ UNCHANGED <<srv_in, response, remaining_answer, remaining_ns,
                 remaining_extra, edns0_rr, all_frags, frag_ret, send_n, sent>>
  /\ UNCHANGED cvars
  /\ UNCHANGED tvars

\* c.Exchange fails: SRVFAIL and return (lines 225-229)
ServerExchangeError ==
  /\ spc = "exchange"
  /\ sent' = Append(sent, SRVFAIL(request))
  /\ spc' = "done"
  /\ UNCHANGED <<srv_in, request, client_supports_appfrag, response,
                 remaining_answer, remaining_ns, remaining_extra, edns0_rr,
                 all_frags, frag_ret, send_n>>
  /\ UNCHANGED cvars
  /\ UNCHANGED tvars

\* c.Exchange returns the backend's reply r; without the capability it is
\* written back raw (lines 233-237), otherwise frag is called (line 240)
ServerExchangeReply ==
  /\ spc = "exchange"
  /\ \E r \in Replies(request) :
       /\ response' = r
       /\ IF ~client_supports_appfrag
          THEN /\ sent' = Append(sent, r)
               /\ spc' = "done"
          ELSE /\ sent' = sent
               /\ spc' = "frag"
  /\ UNCHANGED <<srv_in, request, client_supports_appfrag,
                 remaining_answer, remaining_ns, remaining_extra, edns0_rr,
                 all_frags, frag_ret, send_n>>
  /\ UNCHANGED cvars
  /\ UNCHANGED tvars

(***************************************************************************)
(* frag.                                                                   *)
(***************************************************************************)
\* lines 72-110: copy the sections, add an OPT to the reply if it has none,
\* take the first OPT out of the copied additional section; without one,
\* return no fragment at all
FragStart ==
  /\ spc = "frag"
  /\ all_frags' = <<>>
  /\ remaining_answer' = response.Answer
  /\ remaining_ns' = response.Ns
  /\ response' = IF IsEdns0(response) = NoRR THEN SetEdns0(response, 512)
                 ELSE response
  /\ LET ps == OptPositions(response.Extra) IN
     IF ps = {}
     THEN /\ edns0_rr' = NoRR
          /\ remaining_extra' = response.Extra
          /\ frag_ret' = <<>>
          /\ spc' = "send"
     ELSE /\ edns0_rr' = response.Extra[Least(ps)]
          /\ remaining_extra' = RemoveAt(response.Extra, Least(ps))
          /\ frag_ret' = frag_ret
          /\ spc' = "pack"
  /\ UNCHANGED <<srv_in, request, client_supports_appfrag, send_n, sent>>
  /\ UNCHANGED cvars
  /\ UNCHANGED tvars

\* lines 115-128: a copy of the reply with empty sections and a copy of the
\* OPT carrying the descriptor option with the placeholder data [0, 0]
NewFragment(reply, opt) ==
  [reply EXCEPT !.Answer = <<>>, !.Ns = <<>>,
                !.Extra = <<[opt EXCEPT !.Option =
                               Append(@, LocalOpt(FRAG_CODE, <<0, 0>>))]>>]

\* the fill loops without the removal of the RR that made the fragment too
\* long (lines 141, 152, 163 left out)
RECURSIVE Fill_NoRevert(_, _, _)
Fill_NoRevert(f, sec, rem) ==
  IF rem = <<>> THEN [f |-> f, rem |-> rem]
  ELSE LET g == [f EXCEPT ![sec] = Append(@, Head(rem))] IN
       IF MsgLen(g) <= MaxFragLen
       THEN Fill_NoRevert(g, sec, Tail(rem))
       ELSE [f |-> g, rem |-> Tail(rem)]

\* the fill loops taking the RR that did not fit off the remaining list
RECURSIVE Fill_DropOverflow(_, _, _)
Fill_DropOverflow(f, sec, rem) ==
  IF rem = <<>> THEN [f |-> f, rem |-> rem]
  ELSE LET g == [f EXCEPT ![sec] = Append(@, Head(rem))] IN
       IF MsgLen(g) <= MaxFragLen
       THEN Fill_DropOverflow(g, sec, Tail(rem))
       ELSE [f |-> f, rem |-> Tail(rem)]

\* the fill loops (lines 134-166): append the head of rem to section sec of
\* f while the fragment stays within 512 octets
RECURSIVE Fill(_, _, _)
Fill(f, sec, rem) ==
  IF rem = <<>> THEN [f |-> f, rem |-> rem]
  ELSE LET g == [f EXCEPT ![sec] = Append(@, Head(rem))] IN
       IF MsgLen(g) <= MaxFragLen
       THEN Fill(g, sec, Tail(rem))
       ELSE [f |-> f, rem |-> rem]

\* one fragment: Answer, then Authority, then Additional
PackFragment(reply, opt, ra, rn, re) ==
  LET a == Fill(NewFragment(reply, opt), "Answer", ra)
      n == Fill(a.f, "Ns", rn)
      e == Fill(n.f, "Extra", re)
  IN [f |-> e.f, ra |-> a.rem, rn |-> n.rem, re |-> e.rem]

\* lines 168-175: the fragment took no RR
NoProgress(f) == Len(f.Answer) = 0 /\ Len(f.Ns) = 0 /\ Len(f.Extra) = 1

\* the truncated reply with the OPT copy left in (line 173 left out)
TruncatedReply_KeepExtra(f) == [f EXCEPT !.Truncated = TRUE]

\* the single truncated reply
TruncatedReply(f) == [f EXCEPT !.Truncated = TRUE, !.Extra = <<>>]

\* the loop left as soon as the Answer queue is empty (line 180 testing
\* remaining_answer only)
FragPack_AnswersOnly ==
  /\ spc = "pack"
  /\ LET p == PackFragment(response, edns0_rr, remaining_answer,
                           remaining_ns, remaining_extra) IN
     /\ remaining_answer' = p.ra
     /\ remaining_ns' = p.rn
     /\ remaining_extra' = p.re
     /\ IF NoProgress(p.f)
        THEN /\ frag_ret' = <<TruncatedReply(p.f)>>
             /\ all_frags' = all_frags
             /\ spc' = "send"
        ELSE /\ all_frags' = Append(all_frags, p.f)
             /\ frag_ret' = frag_ret
             /\ spc' = IF p.ra = <<>> THEN "fixup" ELSE "pack"
  /\ UNCHANGED <<srv_in, request, client_supports_appfrag, response,
                 edns0_rr, send_n, sent>>
  /\ UNCHANGED cvars
  /\ UNCHANGED tvars

\* one iteration of the loop of lines 113-183
FragPack ==
  /\ spc = "pack"
  /\ LET p == PackFragment(response, edns0_rr, remaining_answer,
                           remaining_ns, remaining_extra) IN
     /\ remaining_answer' = p.ra
     /\ remaining_ns' = p.rn
     /\ remaining_extra' = p.re
     /\ IF NoProgress(p.f)
        THEN /\ frag_ret' = <<TruncatedReply(p.f)>>
             /\ all_frags' = all_frags
             /\ spc' = "send"
        ELSE /\ all_frags' = Append(all_frags, p.f)
             /\ frag_ret' = frag_ret
             /\ spc' = IF p.ra = <<>> /\ p.rn = <<>> /\ p.re = <<>>
                       THEN "fixup" ELSE "pack"
  /\ UNCHANGED <<srv_in, request, client_supports_appfrag, response,
                 edns0_rr, send_n, sent>>
  /\ UNCHANGED cvars
  /\ UNCHANGED tvars

\* the descriptor of fragment n of k (line 190)
Descriptor(k, n) == <<ToByte(k), ToByte(n)>>

\* lines 186-193 for one fragment: every option of the fragment's OPT with
\* the descriptor code gets the data d
FixFragment(f, d) ==
  LET ps == OptPositions(f.Extra) IN
  IF ps = {} THEN f
  ELSE [f EXCEPT !.Extra[Least(ps)].Option =
          [i \in DOMAIN @ |-> IF @[i].Code = FRAG_CODE
                              THEN [@[i] EXCEPT !.Data = d] ELSE @[i]]]

\* the fix-up loop and the return of line 196
FragFixup ==
  /\ spc = "fixup"
  /\ all_frags' = [n \in DOMAIN all_frags |->
                     FixFragment(all_frags[n], Descriptor(Len(all_frags), n - 1))]
  /\ frag_ret' = all_frags'
  /\ spc' = "send"
  /\ UNCHANGED <<srv_in, request, client_supports_appfrag, response,
                 remaining_answer, remaining_ns, remaining_extra, edns0_rr,
                 send_n, sent>>
  /\ UNCHANGED cvars
  /\ UNCHANGED tvars

(***************************************************************************)
(* ServerProxy.ServeDNS: the send loop (lines 243-246).                    *)
(***************************************************************************)
ServerSend ==
  /\ spc = "send"
  /\ send_n <= Len(frag_ret)
  /\ sent' = Append(sent, frag_ret[send_n])
  /\ send_n' = send_n + 1
  /\ UNCHANGED <<srv_in, request, spc, client_supports_appfrag, response,
                 remaining_answer, remaining_ns, remaining_extra, edns0_rr,
                 all_frags, frag_ret>>
  /\ UNCHANGED cvars
  /\ UNCHANGED tvars

ServerReturn ==
  /\ spc = "send"
  /\ send_n > Len(frag_ret)
  /\ spc' = "done"
  /\ UNCHANGED <<srv_in, request, client_supports_appfrag, response,
                 remaining_answer, remaining_ns, remaining_extra, edns0_rr,
                 all_frags, frag_ret, send_n, sent>>
  /\ UNCHANGED cvars
  /\ UNCHANGED tvars

ServerNext ==
  \/ ServerConsume
  \/ ServerExchangeError
  \/ ServerExchangeReply
  \/ FragStart
  \/ FragPack
  \/ FragFixup
  \/ ServerSend
  \/ ServerReturn

(***************************************************************************)
(* The server proxy alone: a query arrives, the backend answers.           *)
(***************************************************************************)
ServerIdle ==
  /\ response = NoMsg
  /\ client_supports_appfrag = FALSE
  /\ remaining_answer = <<>> /\ remaining_ns = <<>> /\ remaining_extra = <<>>
  /\ edns0_rr = NoRR
  /\ all_frags = <<>> /\ frag_ret = <<>>
  /\ send_n = 1
  /\ sent = <<>>

\* no second handler: the state of the two-handler system stays empty
TwoOff ==
  /\ hq = <<>> /\ hpc = <<>> /\ hconn = <<>> /\ hnum = <<>>
  /\ hfrags = <<>> /\ hread = <<>> /\ hout = <<>>
  /\ wire = {} /\ inbox = <<>>

ClientOff ==
  /\ stub_query = NoMsg /\ proxy_req = NoMsg
  /\ client_buf_size = 0
  /\ cpc = "off"
  /\ conn = "none"
  /\ num_frags = -1
  /\ frags = <<>>
  /\ rebuilt_reply = NoMsg
  /\ arrived = {}
  /\ last = NoMsg
  /\ err = "none"
  /\ ignored = {}
  /\ out = <<>>

InitFrag ==
  /\ srv_in \in ServerQueries
  /\ request = srv_in
  /\ spc = "serve"
  /\ ServerIdle
  /\ ClientOff
  /\ TwoOff

SpecFrag == InitFrag /\ [][ServerNext]_vars

(***************************************************************************)
(* ClientProxy.                                                            *)
(***************************************************************************)
\* get_fragment_info with (0, 0) instead of (-1, -1) for a message without
\* descriptor (lines 66-67 initialising to Go's zero values)
get_fragment_info_ZeroDefault(msg) ==
  LET resp_edns0 == IsEdns0(msg)
      ps == IF resp_edns0 = NoRR THEN {}
            ELSE CodePositions(resp_edns0.Option, FRAG_CODE) IN
  IF ps = {}
  THEN [num_frags |-> 0, sequence_num |-> 0, panic |-> FALSE]
  ELSE LET d == resp_edns0.Option[Least(ps)].Data IN
       IF Len(d) < 2
       THEN [num_frags |-> -1, sequence_num |-> -1, panic |-> TRUE]
       ELSE [num_frags |-> d[1], sequence_num |-> d[2], panic |-> FALSE]

\* get_fragment_info (lines 65-80): the data octets of the first option of
\* the OPT with the descriptor code, (-1, -1) without one; indexing data of
\* fewer than two octets panics
get_fragment_info(msg) ==
  LET resp_edns0 == IsEdns0(msg)
      ps == IF resp_edns0 = NoRR THEN {}
            ELSE CodePositions(resp_edns0.Option, FRAG_CODE) IN
  IF ps = {}
  THEN [num_frags |-> -1, sequence_num |-> -1, panic |-> FALSE]
  ELSE LET d == resp_edns0.Option[Least(ps)].Data IN
       IF Len(d) < 2
       THEN [num_frags |-> -1, sequence_num |-> -1, panic |-> TRUE]
       ELSE [num_frags |-> d[1], sequence_num |-> d[2], panic |-> FALSE]

\* lines 86-101: the upstream query is a shallow copy of the request, given
\* an OPT advertising 512 if it has none, with the capability option
\* appended to its OPT
MarkQuery(req) ==
  LET q == IF IsEdns0(req) = NoRR THEN SetEdns0(req, 512) ELSE req
      at == Least(OptPositions(q.Extra)) IN
  [q EXCEPT !.Extra[at].Option = Append(@, LocalOpt(CAP_CODE, <<>>))]

\* lines 88-96: the stub's advertised UDP size, 512 without an OPT
ClientBufSize(req) ==
  IF IsEdns0(req) = NoRR THEN DefaultUDPSize ELSE IsEdns0(req).UDPSize

ClientMark ==
  /\ cpc = "start"
  /\ proxy_req' = MarkQuery(stub_query)
  /\ client_buf_size' = ClientBufSize(stub_query)
  /\ cpc' = "dial"
  /\ UNCHANGED <<stub_query, conn, num_frags, frags, rebuilt_reply, arrived,
                 last, err, out, ignored>>
  /\ UNCHANGED svars
  /\ UNCHANGED tvars

\* dns.DialTimeout fails (lines 106-110)
ClientDialError ==
  /\ cpc = "dial"
  /\ err' = "dial"
  /\ out' = Append(out, SRVFAIL(stub_query))
  /\ cpc' = "done"
  /\ UNCHANGED <<stub_query, proxy_req, client_buf_size, conn, num_frags,
                 frags, rebuilt_reply, arrived, last, ignored>>
  /\ UNCHANGED svars
  /\ UNCHANGED tvars

\* the socket is open; conn.Close is deferred (line 111)
ClientDial ==
  /\ cpc = "dial"
  /\ conn' = "open"
  /\ cpc' = "write"
  /\ UNCHANGED <<stub_query, proxy_req, client_buf_size, num_frags, frags,
                 rebuilt_reply, arrived, last, err, out, ignored>>
  /\ UNCHANGED svars
  /\ UNCHANGED tvars

\* conn.WriteMsg fails (lines 120-124)
ClientWriteError ==
  /\ cpc = "write"
  /\ err' = "write"
  /\ out' = Append(out, SRVFAIL(stub_query))
  /\ conn' = "closed"
  /\ cpc' = "done"
  /\ UNCHANGED <<stub_query, proxy_req, client_buf_size, num_frags, frags,
                 rebuilt_reply, arrived, last, ignored>>
  /\ UNCHANGED svars
  /\ UNCHANGED tvars

\* the query is on its way; the server proxy's handler is started with it
ClientWrite ==
  /\ cpc = "write"
  /\ cpc' = "first"
  /\ spc = "idle"
  /\ srv_in' = proxy_req
  /\ request' = proxy_req
  /\ spc' = "serve"
  /\ UNCHANGED <<stub_query, proxy_req, client_buf_size, conn, num_frags,
                 frags, rebuilt_reply, arrived, last, err, out, ignored>>
  /\ UNCHANGED <<client_supports_appfrag, response, remaining_answer,
                 remaining_ns, remaining_extra, edns0_rr, all_frags, frag_ret,
                 send_n, sent>>
  /\ UNCHANGED tvars

(***************************************************************************)
(* What the upstream socket may hand to conn.ReadMsg: a message the server *)
(* proxy has written (UDP may repeat, reorder or lose it) or a datagram    *)
(* of another origin.                                                      *)
(***************************************************************************)
\* a response with the given ID, one answer named n and additional section
StrayMsg(id, n, extra) ==
  [Id |-> id, Response |-> TRUE, Truncated |-> FALSE, Rcode |-> 0,
   Question |-> <<QuestionSize>>, Answer |-> <<MkRR(n, 100)>>, Ns |-> <<>>,
   Extra |-> extra]

\* a response carrying the descriptor data d
ForgedFrag(n, d) == StrayMsg(QId, n, <<MkOPT(4096, <<LocalOpt(FRAG_CODE, d)>>)>>)

\* a reply to another query; a reply without OPT; a second fragment 1 of 2
\* with other content; a fragment whose seq is beyond its total; a
\* descriptor of one octet
StrayMsgs ==
  {StrayMsg(QId + 1, 90, <<>>), StrayMsg(QId, 91, <<>>),
   ForgedFrag(92, <<2, 1>>), ForgedFrag(93, <<2, 2>>), ForgedFrag(94, <<2>>)}

Range(s) == {s[i] : i \in DOMAIN s}

Readable == Range(sent) \cup StrayMsgs

\* the failed read returning without the socket closed (conn.Close called
\* at the end of the handler instead of deferred at line 111)
ClientReadError_NoClose ==
  /\ cpc \in {"first", "collect"}
  /\ err' = "read"
  /\ out' = Append(out, SRVFAIL(stub_query))
  /\ cpc' = "done"
  /\ UNCHANGED <<stub_query, proxy_req, client_buf_size, conn, num_frags,
                 frags, rebuilt_reply, arrived, last, ignored>>
  /\ UNCHANGED svars
  /\ UNCHANGED tvars

\* conn.ReadMsg fails or its deadline expires (lines 49-53)
ClientReadError ==
  /\ cpc \in {"first", "collect"}
  /\ err' = "read"
  /\ out' = Append(out, SRVFAIL(stub_query))
  /\ conn' = "closed"
  /\ cpc' = "done"
  /\ UNCHANGED <<stub_query, proxy_req, client_buf_size, num_frags, frags,
                 rebuilt_reply, arrived, last, ignored>>
  /\ UNCHANGED svars
  /\ UNCHANGED tvars

\* a response to another QID returned by wait_for_response as if it
\* matched (the test of line 55 left out) and, without descriptor, written
\* to the stub
ClientReadMismatch_Accept ==
  /\ cpc \in {"first", "collect"}
  /\ \E m \in Readable :
       /\ m.Id # stub_query.Id
       /\ ignored' = ignored \cup {m}
       /\ out' = Append(out, m)
  /\ conn' = "closed"
  /\ cpc' = "done"
  /\ UNCHANGED <<stub_query, proxy_req, client_buf_size, num_frags, frags,
                 rebuilt_reply, arrived, last, err>>
  /\ UNCHANGED svars
  /\ UNCHANGED tvars

\* a response to another QID is ignored and the next one read (lines 59-60)
ClientReadMismatch ==
  /\ cpc \in {"first", "collect"}
  /\ \E m \in Readable :
       /\ m.Id # stub_query.Id
       /\ ignored' = ignored \cup {m}
  /\ UNCHANGED <<stub_query, proxy_req, client_buf_size, cpc, conn, num_frags,
                 frags, rebuilt_reply, arrived, last, err, out>>
  /\ UNCHANGED svars
  /\ UNCHANGED tvars

\* the message stored at its arrival position instead of its sequence number
StoreFragment_ByArrival(fs, sequence_num, m) == (Cardinality(DOMAIN fs) :> m) @@ fs

\* a message stored only if its sequence number is new (first writer wins)
StoreFragment_FirstWins(fs, sequence_num, m) == fs @@ (sequence_num :> m)

\* frags[sequence_num] = *response (lines 142 and 153): the message is
\* stored under its sequence number, replacing one stored there before
StoreFragment(fs, sequence_num, m) == (sequence_num :> m) @@ fs

\* the first matching response (lines 127-142): written to the stub as it
\* is if it carries no descriptor, else stored under its sequence number
ClientReadFirst ==
  /\ cpc = "first"
  /\ \E m \in Readable :
       /\ m.Id = stub_query.Id
       /\ arrived' = arrived \cup {m}
       /\ last' = m
       /\ LET info == get_fragment_info(m) IN
          IF info.panic
          THEN /\ cpc' = "panic"
               /\ conn' = "closed"
               /\ UNCHANGED <<num_frags, frags, out>>
          ELSE IF info.num_frags = -1
          THEN /\ out' = Append(out, m)
               /\ cpc' = "done"
               /\ conn' = "closed"
               /\ num_frags' = info.num_frags
               /\ frags' = frags
          ELSE /\ num_frags' = info.num_frags
               /\ frags' = StoreFragment(<<>>, info.sequence_num, m)
               /\ cpc' = IF 1 < info.num_frags THEN "collect" ELSE "rebuild"
               /\ UNCHANGED <<conn, out>>
  /\ UNCHANGED <<stub_query, proxy_req, client_buf_size, rebuilt_reply, err,
                 ignored>>
  /\ UNCHANGED svars
  /\ UNCHANGED tvars

\* one more matching response while len(frags) < num_frags (lines 146-154)
ClientReadNext ==
  /\ cpc = "collect"
  /\ \E m \in Readable :
       /\ m.Id = stub_query.Id
       /\ arrived' = arrived \cup {m}
       /\ last' = m
       /\ LET info == get_fragment_info(m) IN
          IF info.panic
          THEN /\ cpc' = "panic"
               /\ conn' = "closed"
               /\ frags' = frags
          ELSE /\ frags' = StoreFragment(frags, info.sequence_num, m)
               /\ cpc' = IF Cardinality(DOMAIN frags') < num_frags
                         THEN "collect" ELSE "rebuild"
               /\ conn' = conn
  /\ UNCHANGED <<stub_query, proxy_req, client_buf_size, num_frags,
                 rebuilt_reply, err, out, ignored>>
  /\ UNCHANGED svars
  /\ UNCHANGED tvars

\* lines 170-177: the RRs of fragment f appended to the reply r, the OPT
\* records of f left out
AppendFragment(r, f) ==
  [r EXCEPT !.Answer = @ \o f.Answer,
            !.Ns = @ \o f.Ns,
            !.Extra = @ \o SelectSeqNonOpt(f.Extra)]

\* Go's map read frags[n]: the zero message when n is not a key
MapGet(fs, n) == IF n \in DOMAIN fs THEN fs[n] ELSE [NoMsg EXCEPT !.Id = 0]

\* the loop of lines 163-178 from fragment n on
RECURSIVE Stitch(_, _, _, _)
Stitch(r, fs, n, k) ==
  IF n >= k THEN r ELSE Stitch(AppendFragment(r, MapGet(fs, n)), fs, n + 1, k)

\* only fragment 0 looked up (the check of lines 164-169 left out)
Wanted_FirstOnly(k) == {0}

\* the sequence numbers lines 157-169 look up
Wanted(k) == {0} \cup 0..(k - 1)

\* lines 157-178: SRVFAIL if fragment 0 or a later one is missing, else the
\* fragments appended to fragment 0 in the order of their sequence numbers
ClientRebuild ==
  /\ cpc = "rebuild"
  /\ IF Wanted(num_frags) \subseteq DOMAIN frags
     THEN /\ rebuilt_reply' = Stitch(MapGet(frags, 0), frags, 1, num_frags)
          /\ cpc' = "deliver"
          /\ UNCHANGED <<conn, out>>
     ELSE /\ out' = Append(out, SRVFAIL(stub_query))
          /\ conn' = "closed"
          /\ cpc' = "done"
          /\ rebuilt_reply' = rebuilt_reply
  /\ UNCHANGED <<stub_query, proxy_req, client_buf_size, num_frags, frags,
                 arrived, last, err, ignored>>
  /\ UNCHANGED svars
  /\ UNCHANGED tvars

\* the buffer check setting TC but keeping the sections (lines 185-187
\* left out)
EnforceBuffer_KeepSections(r, size) ==
  IF MsgLen(r) > size THEN [r EXCEPT !.Truncated = TRUE] ELSE r

\* lines 181-188: a reply larger than the stub's buffer is truncated
EnforceBuffer(r, size) ==
  IF MsgLen(r) > size
  THEN [r EXCEPT !.Truncated = TRUE, !.Answer = <<>>, !.Ns = <<>>, !.Extra = <<>>]
  ELSE r

\* lines 180-191
ClientDeliver ==
  /\ cpc = "deliver"
  /\ out' = Append(out, EnforceBuffer(rebuilt_reply, client_buf_size))
  /\ conn' = "closed"
  /\ cpc' = "done"
  /\ UNCHANGED <<stub_query, proxy_req, client_buf_size, num_frags, frags,
                 rebuilt_reply, arrived, last, err, ignored>>
  /\ UNCHANGED svars
  /\ UNCHANGED tvars

ClientNext ==
  \/ ClientMark
  \/ ClientDialError
  \/ ClientDial
  \/ ClientWriteError
  \/ ClientWrite
  \/ ClientReadError
  \/ ClientReadMismatch
  \/ ClientReadFirst
  \/ ClientReadNext
  \/ ClientRebuild
  \/ ClientDeliver

(***************************************************************************)
(* Both proxies: a stub's query through the client proxy, the server proxy *)
(* and the backend, and back.                                              *)
(***************************************************************************)
\* the stub's queries: without OPT, with an OPT advertising 512 or 4096, and
\* with an OPT that already carries the capability option
StubQueries ==
  {MkQuery(<<>>), MkQuery(<<MkOPT(512, <<>>)>>),
   MkQuery(<<MkOPT(4096, <<OtherOpt>>)>>), PlainCapQuery}

InitBoth ==
  /\ stub_query \in StubQueries
  /\ proxy_req = NoMsg
  /\ client_buf_size = 0
  /\ cpc = "start"
  /\ conn = "none"
  /\ num_frags = -1
  /\ frags = <<>>
  /\ rebuilt_reply = NoMsg
  /\ arrived = {}
  /\ last = NoMsg
  /\ err = "none"
  /\ ignored = {}
  /\ out = <<>>
  /\ srv_in = NoMsg
  /\ request = NoMsg
  /\ spc = "idle"
  /\ ServerIdle
  /\ TwoOff

Next == ClientNext \/ ServerNext

Spec == InitBoth /\ [][Next]_vars

(***************************************************************************)
(* Properties of frag (checked under SpecFrag).                            *)
(***************************************************************************)
\* frag was called and has returned
FragReturned == spc \in {"send", "done"} /\ client_supports_appfrag /\ response # NoMsg

\* the reply frag was called with had an OPT record
ReplyHasOpt == edns0_rr # NoRR

\* the RRs of the reply that frag distributes: all but the OPT it took out
ReplyRRs ==
  Range(response.Answer) \cup Range(response.Ns) \cup
  {r \in Range(response.Extra) : r.Rrtype # "OPT"}

\* the OPT copy every fragment starts with: the reply's OPT and one
\* descriptor option of two data octets
OptCopyLen == RRLen(edns0_rr) + OptionLen(LocalOpt(FRAG_CODE, <<0, 0>>))

\* RR r alone, with the header, the question and the OPT copy, is within
\* 512 octets
FitsAlone(r) == 12 + SumSizes(response.Question) + OptCopyLen + RRLen(r) <= MaxFragLen

\* the descriptor options of a message's OPT
Descriptors(m) ==
  IF IsEdns0(m) = NoRR THEN <<>>
  ELSE SelectSeq(IsEdns0(m).Option, LAMBDA o : o.Code = FRAG_CODE)

\* frag returned fragments: messages that each carry a descriptor
ReturnedFragments ==
  /\ FragReturned
  /\ frag_ret # <<>>
  /\ \A i \in DOMAIN frag_ret : Descriptors(frag_ret[i]) # <<>>

\* the reply's header with TC set and no RR
TruncatedHeader(reply) ==
  [reply EXCEPT !.Truncated = TRUE, !.Answer = <<>>, !.Ns = <<>>, !.Extra = <<>>]

\* the concatenation of section sec of the messages ms
RECURSIVE Concat(_, _)
Concat(ms, sec) ==
  IF ms = <<>> THEN <<>> ELSE Head(ms)[sec] \o Concat(Tail(ms), sec)

\* C2 - size bound: when every RR of the reply fits alone with the header
\* and the OPT copy (descriptor option included) in 512 octets, every
\* message frag returns is at most 512 octets long, the fix-up pass done.
SizeBound ==
  (FragReturned /\ ReplyHasOpt /\ \A r \in ReplyRRs : FitsAlone(r))
    => \A i \in DOMAIN frag_ret : MsgLen(frag_ret[i]) <= MaxFragLen

\* several fragments returned after the fix-up, one of them of exactly 512
\* octets
SizeBoundWitness ==
  /\ spc = "done" /\ ReturnedFragments
  /\ \A r \in ReplyRRs : FitsAlone(r)
  /\ Len(frag_ret) >= 2
  /\ \E i \in DOMAIN frag_ret : MsgLen(frag_ret[i]) = MaxFragLen

\* C3 - fragment numbering: when frag returns k fragments, fragment i
\* (counted from 0) carries exactly one descriptor option and its data is
\* [k, i], k >= 1.
FragmentNumbering ==
  ReturnedFragments
    => \A i \in DOMAIN frag_ret :
         /\ Len(Descriptors(frag_ret[i])) = 1
         /\ Descriptors(frag_ret[i])[1].Data = <<Len(frag_ret), i - 1>>
         /\ Len(frag_ret) >= 1

\* C4 - order preservation: the Answer sections of the fragments, one after
\* the other, are the reply's Answer section; likewise Authority, and
\* Additional without the OPT records.
OrderPreservation ==
  ReturnedFragments
    => /\ Concat(frag_ret, "Answer") = response.Answer
       /\ Concat(frag_ret, "Ns") = response.Ns
       /\ SelectSeqNonOpt(Concat(frag_ret, "Extra")) = SelectSeqNonOpt(response.Extra)

\* two fragments, the first closed for Answer (the second has answers too)
\* and still taking an Authority RR
OrderPreservationWitness ==
  /\ spc = "done" /\ ReturnedFragments
  /\ Len(frag_ret) >= 2
  /\ frag_ret[1].Answer # <<>> /\ frag_ret[1].Ns # <<>>
  /\ frag_ret[2].Answer # <<>>

\* C5 - missing backend OPT: a query with the capability option answered by
\* a reply without OPT gets that reply, raw, as the one message sent.
MissingOptForwardsRaw ==
  (spc = "done" /\ FragReturned /\ ~ReplyHasOpt)
    => sent = <<[response EXCEPT !.Extra = remaining_extra]>>

\* C6 - single-RR overflow: when some RR of a reply with OPT does not fit
\* alone, frag returns exactly one message, the reply's header with TC set,
\* no RR in any section and so no descriptor.
SingleRROverflow ==
  (FragReturned /\ ReplyHasOpt /\ \E r \in ReplyRRs : ~FitsAlone(r))
    => frag_ret = <<TruncatedHeader(response)>>

\* the truncated reply returned after a fragment had been filled
SingleRROverflowWitness ==
  /\ spc = "done" /\ FragReturned /\ ReplyHasOpt
  /\ \E r \in ReplyRRs : ~FitsAlone(r)
  /\ all_frags # <<>>
  /\ sent = <<TruncatedHeader(response)>>

\* C7 - more than 255 fragments: when packing yields more than 255
\* fragments, frag returns the single truncated reply.
TooManyFragmentsTruncated ==
  (FragReturned /\ Len(all_frags) >= ByteRange)
    => frag_ret = <<TruncatedHeader(response)>>

(***************************************************************************)
(* Properties of the reassembler (checked under Spec).                     *)
(***************************************************************************)
\* the client proxy has read every message frag returned and nothing else
ReadAllOfFrag == FragReturned /\ frag_ret # <<>> /\ arrived = Range(frag_ret)

\* an OPT without its descriptor options
StripDescriptor(opt) ==
  [opt EXCEPT !.Option = SelectSeq(@, LAMBDA o : o.Code # FRAG_CODE)]

\* m equals the reply r in its header fields and in the RRs of its three
\* sections, but for the descriptor option on m's OPT (and the place of
\* the OPT in the additional section)
SameModuloDescriptor(m, r) ==
  /\ m.Id = r.Id /\ m.Response = r.Response
  /\ m.Truncated = r.Truncated /\ m.Rcode = r.Rcode
  /\ m.Question = r.Question
  /\ m.Answer = r.Answer
  /\ m.Ns = r.Ns
  /\ SelectSeqNonOpt(m.Extra) = SelectSeqNonOpt(r.Extra)
  /\ Cardinality(OptPositions(m.Extra)) = 1
  /\ StripDescriptor(IsEdns0(m)) = IsEdns0(r)

\* C1 - round-trip identity, for the replies with OPT all of whose RRs fit
\* alone in a fragment: what the client proxy makes of frag's output (the
\* message it forwards, or the reply it has rebuilt before the buffer check)
\* equals the reply but for the descriptor option.
RoundTripIdentity ==
  (ReadAllOfFrag /\ ReplyHasOpt /\ \A r \in ReplyRRs : FitsAlone(r))
    => /\ cpc = "deliver" => SameModuloDescriptor(rebuilt_reply, response)
       /\ (cpc = "done" /\ num_frags = -1 /\ Len(out) = 1)
            => SameModuloDescriptor(out[1], response)

\* the positions 0..total-1 of which frags holds no fragment
Absent == {i \in 0..(num_frags - 1) : i \notin DOMAIN frags}

\* m is SERVFAIL for the stub's query: its ID, RCODE 2, no RR
IsServFail(m) ==
  /\ m.Id = stub_query.Id
  /\ m.Rcode = RcodeServerFailure
  /\ m.Answer = <<>> /\ m.Ns = <<>> /\ m.Extra = <<>>

\* C8 - no partial delivery: when the handler has returned after a failed
\* or timed-out upstream read, or with a position of 0..total-1 absent from
\* frags, the stub has received SERVFAIL and nothing else; a reply is
\* rebuilt for delivery only with a fragment for every seq in 0..total-1.
NoPartialDelivery ==
  /\ (cpc = "done" /\ (err = "read" \/ Absent # {}))
       => (Len(out) = 1 /\ IsServFail(out[1]))
  /\ cpc = "deliver" => Absent = {}

\* SERVFAIL after the deadline expired with fragment 0 of 3 still missing
NoPartialDeliveryWitness ==
  /\ cpc = "done" /\ err = "read"
  /\ num_frags = 3 /\ DOMAIN frags = {1, 2}
  /\ out = <<SRVFAIL(stub_query)>>

\* the fragments ms stitched in their order: the first one, with the RRs
\* of the others appended section by section, their OPT records left out
InOrder(ms) ==
  [ms[1] EXCEPT !.Answer = Concat(ms, "Answer"),
                !.Ns = Concat(ms, "Ns"),
                !.Extra = @ \o SelectSeqNonOpt(Concat(Tail(ms), "Extra"))]

\* m as delivered to a stub that advertised size: truncated and emptied if
\* longer
Delivered(m, size) ==
  IF MsgLen(m) > size THEN TruncatedHeader(m) ELSE m

\* C9 - arrival-order independence: once the complete set of fragments of
\* one reply has arrived, in whatever order, the reply rebuilt is the
\* fragments stitched in the order of their sequence numbers 0..k-1, and
\* that is what the stub gets.
ArrivalOrderIndependence ==
  (ReturnedFragments /\ arrived = Range(frag_ret))
    => /\ cpc = "deliver" => rebuilt_reply = InOrder(frag_ret)
       /\ cpc = "done" => out = <<Delivered(InOrder(frag_ret), client_buf_size)>>

\* three fragments, fragment 0 the last to arrive, and the stub has all
\* three answers in the reply's order
ArrivalOrderIndependenceWitness ==
  /\ cpc = "done" /\ ReturnedFragments
  /\ Len(frag_ret) = 3 /\ arrived = Range(frag_ret)
  /\ last = frag_ret[1]
  /\ Len(out) = 1 /\ out[1].Answer = response.Answer
  /\ Len(response.Answer) = 3

\* the sequence number the latest response read carries
LastSeq == get_fragment_info(last).sequence_num

\* a step of the collection loop that stores a response
StoresResponse == cpc = "collect" /\ cpc' \in {"collect", "rebuild"} /\ last' # NoMsg

\* section sec of the fragments 0..k-1 of the map fs, one after the other
RECURSIVE FromMap(_, _, _, _)
FromMap(fs, n, k, sec) ==
  IF n >= k THEN <<>> ELSE fs[n][sec] \o FromMap(fs, n + 1, k, sec)

\* C10 - duplicate fragments: the latest response read is the one stored
\* under its sequence number (last writer wins); a response with a sequence
\* number already stored leaves the number of collected fragments as it
\* was and the handler collecting, with nothing written to the stub; the
\* handler never waits once every sequence number 0..total-1 is stored, and
\* having them all it delivers the reply made of the stored fragments.
DuplicateStateInv ==
  /\ (cpc \in {"collect", "rebuild", "deliver"}) => frags[LastSeq] = last
  /\ cpc = "collect" => Absent # {}
  /\ (cpc = "done" /\ num_frags > 0 /\ Absent = {})
       => /\ Len(out) = 1
          /\ ~IsServFail(out[1])
          /\ out[1].Truncated \/ out[1].Answer = FromMap(frags, 0, num_frags, "Answer")

DuplicateStep ==
  (StoresResponse /\ get_fragment_info(last').sequence_num \in DOMAIN frags)
    => /\ DOMAIN frags' = DOMAIN frags
       /\ frags'[get_fragment_info(last').sequence_num] = last'
       /\ cpc' = "collect"
       /\ out' = out

DuplicatesAbsorbed == []DuplicateStateInv /\ [][DuplicateStep]_vars

\* fragment 1 of 2 arrived twice with different content, the second one
\* stored, and the stub has a complete reply
DuplicatesAbsorbedWitness ==
  /\ cpc = "done" /\ num_frags = 2
  /\ ForgedFrag(92, <<2, 1>>) \in arrived
  /\ ReturnedFragments /\ Len(frag_ret) = 2 /\ Range(frag_ret) \subseteq arrived
  /\ frags[1] = frag_ret[2]
  /\ Len(out) = 1 /\ out[1].Answer = response.Answer


(***************************************************************************)
(* Properties of the client proxy's handler (checked under Spec).          *)
(***************************************************************************)
\* the UDP size the stub advertised: that of its OPT, 512 if it sent none
StubAdvertised ==
  IF \E i \in DOMAIN stub_query.Extra : stub_query.Extra[i].Rrtype = "OPT"
  THEN stub_query.Extra[Least(OptPositions(stub_query.Extra))].UDPSize
  ELSE DefaultUDPSize

\* C11 - client buffer enforcement: the handler having rebuilt a reply and
\* returned, the stub has received one message: the rebuilt reply's header
\* with TC set and no RR if the rebuilt reply is longer than the size the
\* stub advertised (512 without OPT), the rebuilt reply itself otherwise.
BufferEnforcement ==
  (cpc = "done" /\ rebuilt_reply # NoMsg)
    => /\ Len(out) = 1
       /\ MsgLen(rebuilt_reply) > StubAdvertised
            => out[1] = TruncatedHeader(rebuilt_reply)
       /\ MsgLen(rebuilt_reply) <= StubAdvertised
            => out[1] = rebuilt_reply

\* a reply of two fragments rebuilt for a stub without OPT: longer than 512,
\* delivered truncated and empty
BufferEnforcementWitness ==
  /\ cpc = "done" /\ rebuilt_reply # NoMsg
  /\ num_frags = 2
  /\ stub_query.Extra = <<>>
  /\ MsgLen(rebuilt_reply) > DefaultUDPSize
  /\ out = <<TruncatedHeader(rebuilt_reply)>>
  /\ rebuilt_reply.Answer # <<>>


\* the options of q's OPT that carry the capability code
CapOptions(q) ==
  IF IsEdns0(q) = NoRR THEN <<>>
  ELSE SelectSeq(IsEdns0(q).Option, LAMBDA o : o.Code = CAP_CODE)

\* C12 - upstream query invariant: the query the client proxy has sent
\* upstream contains an OPT record and exactly one capability option, whose
\* data is empty, whatever the stub's query carried.
UpstreamQueryMarked ==
  srv_in # NoMsg
    => /\ IsEdns0(srv_in) # NoRR
       /\ Len(CapOptions(srv_in)) = 1
       /\ CapOptions(srv_in)[1].Data = <<>>


(***************************************************************************)
(* Properties of the server proxy's handler (checked under SpecFrag).      *)
(***************************************************************************)
\* the handler has got the backend's reply to the query it forwarded
BackendReplied == spc \notin {"idle", "serve", "exchange"} /\ response # NoMsg

\* C13 - capability transparency: a query without the capability option
\* (no OPT, or an OPT with other options only) is the request handed to the
\* backend exchange as it came, OPT options and UDP size included; frag is
\* never entered for it, and the handler having returned with the backend's
\* reply, that reply is the one message written to the requester.
CapabilityTransparency ==
  (srv_in # NoMsg /\ CapOptions(srv_in) = <<>>)
    => /\ request = srv_in
       /\ spc \notin {"frag", "pack", "fixup", "send"}
       /\ all_frags = <<>>
       /\ BackendReplied => (spc = "done" /\ sent = <<response>>)

\* a query with an OPT carrying another option only, answered by a reply far
\* longer than 512 octets that went back in one piece
CapabilityTransparencyWitness ==
  /\ spc = "done"
  /\ IsEdns0(srv_in) # NoRR /\ IsEdns0(srv_in).Option = <<OtherOpt>>
  /\ response # NoMsg /\ MsgLen(response) > 2 * MaxFragLen
  /\ sent = <<response>>


(***************************************************************************)
(* More properties of the client proxy's handler (checked under Spec).     *)
(***************************************************************************)
\* a step in which the handler reads its first matching-ID response
ReadsFirst == cpc = "first" /\ arrived = {} /\ arrived' # {}

\* C14 - non-fragmented pass-through: when the first matching-ID response
\* carries no descriptor option, the step that reads it writes that message,
\* as it is, to the stub as the one message of the handler and ends the
\* handler; a handler that has ended reads and writes nothing more.
PassThroughStep ==
  /\ (ReadsFirst /\ Descriptors(last') = <<>>)
       => (out' = <<last'>> /\ cpc' = "done" /\ arrived' = {last'})
  /\ cpc = "done" => UNCHANGED cvars

PassThrough == [][PassThroughStep]_vars

\* the fragmenter's truncated empty reply, forwarded as it came to a stub
\* which advertised 4096
PassThroughWitness ==
  /\ cpc = "done" /\ num_frags = -1
  /\ FragReturned /\ ReplyHasOpt
  /\ frag_ret = <<TruncatedHeader(response)>>
  /\ arrived = {frag_ret[1]}
  /\ out = <<frag_ret[1]>>


\* C15 - a missing fragment can only be caused by a timeout: whatever
\* matching-ID responses arrive, when the collection loop has ended without
\* a read error frags holds a fragment for every seq in 0..total-1, and the
\* handler answers SERVFAIL after reading a fragment only if a read failed.
MissingOnlyByTimeout ==
  /\ cpc = "rebuild" => Absent = {}
  /\ (cpc = "done" /\ num_frags > 0 /\ Len(out) = 1 /\ IsServFail(out[1]))
       => err = "read"


(***************************************************************************)
(* More properties of frag (checked under SpecFrag).                       *)
(***************************************************************************)
\* C16 - the single truncated reply is returned only for an RR that does
\* not fit alone: for a reply with OPT all of whose RRs fit alone with the
\* header and the OPT copy (a reply holding nothing but the OPT included),
\* frag returns fragments that carry the descriptor and the reply's TC flag.
TruncatedOnlyWhenOversized ==
  (FragReturned /\ ReplyHasOpt /\ \A r \in ReplyRRs : FitsAlone(r))
    => /\ ReturnedFragments
       /\ \A i \in DOMAIN frag_ret : frag_ret[i].Truncated = response.Truncated


(***************************************************************************)
(* Properties of the whole handler of the client proxy (under Spec).       *)
(***************************************************************************)
\* the handler of the client proxy has ended: returned, or aborted
HandlerEnded == cpc \in {"done", "panic"}

\* C17 - exactly one response per request: the handler never writes a
\* second message to the stub, and on whatever path it has ended it has
\* written one.
ExactlyOneResponse ==
  /\ Len(out) <= 1
  /\ HandlerEnded => Len(out) = 1


(***************************************************************************)
(* Termination of frag (checked under SpecFrag).                           *)
(***************************************************************************)
\* the number of RRs still waiting in the three queues
Remaining == Len(remaining_answer) + Len(remaining_ns) + Len(remaining_extra)

\* the RRs frag has to distribute, counted with repetitions
ReplyRRCount ==
  Len(response.Answer) + Len(response.Ns) + Len(SelectSeqNonOpt(response.Extra))

\* the loop has made no more iterations than the reply has RRs, and the
\* fragments and the queues together hold the reply's RRs
TerminationInv ==
  (spc \in {"pack", "fixup"})
    => /\ Len(all_frags) <= ReplyRRCount
       /\ Len(all_frags) + Remaining <= ReplyRRCount

\* one iteration of the packing loop: it takes at least one RR off the
\* queues and adds a fragment, then leaves the loop if and only if the three
\* queues are empty; or it takes nothing and returns the truncated reply
TerminationStep ==
  spc = "pack"
    => \/ /\ Remaining' < Remaining
          /\ Len(all_frags') = Len(all_frags) + 1
          /\ spc' = IF Remaining' = 0 THEN "fixup" ELSE "pack"
       \/ /\ Remaining' = Remaining
          /\ all_frags' = all_frags
          /\ spc' = "send"
          /\ frag_ret' = <<TruncatedHeader(response)>>

Stored == {frags[n] : n \in DOMAIN frags}

\* nothing read with another ID is part of what the handler works on or has
\* written to the stub
IgnoredInv ==
  /\ \A m \in ignored : m.Id # stub_query.Id
  /\ \A m \in arrived \cup Stored \cup Range(out) : m.Id = stub_query.Id
  /\ rebuilt_reply # NoMsg => rebuilt_reply.Id = stub_query.Id

\* a step that reads a response to another query leaves the reassembly
\* state and the stub's output as they were, and the handler reading
IgnoredStep ==
  ignored' # ignored
    => /\ cpc \in {"first", "collect"} /\ cpc' = cpc
       /\ UNCHANGED <<frags, num_frags, arrived, last, rebuilt_reply, out,
                      conn, err>>

\* C19 - mismatched reply IDs: an upstream response whose ID is not the
\* query's is discarded: frags and total stay as they were, nothing of it is
\* ever stored or delivered to the stub, and the handler goes on reading.
MismatchDiscarded == []IgnoredInv /\ [][IgnoredStep]_vars

\* a response to another query read on the way, and the stub has the
\* complete reply of two fragments all the same
MismatchDiscardedWitness ==
  /\ cpc = "done" /\ ignored # {}
  /\ ReturnedFragments /\ Len(frag_ret) = 2 /\ arrived = Range(frag_ret)
  /\ Len(out) = 1 /\ out[1].Answer = response.Answer
  /\ response.Answer # <<>>


(***************************************************************************)
(* The capability scan (checked under SpecFrag).                           *)
(***************************************************************************)
\* the options opts without the first one that carries the capability code
WithoutFirstCap(opts) ==
  LET k == CHOOSE i \in DOMAIN opts :
             /\ opts[i].Code = CAP_CODE
             /\ \A j \in 1..(i - 1) : opts[j].Code # CAP_CODE
  IN SubSeq(opts, 1, k - 1) \o SubSeq(opts, k + 1, Len(opts))

\* C20 - capability consumption: for a query whose OPT carries the
\* capability option, the request handed to the backend exchange is the
\* query with the first capability option taken out of its OPT (the other
\* options kept, in order) and the OPT's UDP size 65535, nothing else
\* changed; the backend's reply goes to frag, and what frag returns is what
\* the requester is sent.
CapabilityConsumed ==
  (srv_in # NoMsg /\ CapOptions(srv_in) # <<>> /\ spc \notin {"idle", "serve"})
    => /\ IsEdns0(request) # NoRR
       /\ IsEdns0(request).UDPSize = BackendUDPSize
       /\ IsEdns0(request).Option = WithoutFirstCap(IsEdns0(srv_in).Option)
       /\ Len(request.Extra) = Len(srv_in.Extra)
       /\ [request EXCEPT !.Extra = srv_in.Extra] = srv_in
       /\ client_supports_appfrag
       /\ BackendReplied
            => /\ spc \in {"frag", "pack", "fixup", "send", "done"}
               /\ spc = "done" => (FragReturned /\ sent = frag_ret)

\* a query with the capability option twice around another option: the
\* second is still there, and the reply went out in fragments
CapabilityConsumedWitness ==
  /\ spc = "done" /\ BackendReplied
  /\ Len(CapOptions(srv_in)) = 2
  /\ IsEdns0(request).Option = <<OtherOpt, LocalOpt(CAP_CODE, <<>>)>>
  /\ ReturnedFragments /\ Len(sent) >= 2


(***************************************************************************)
(* The upstream socket (checked under Spec).                               *)
(***************************************************************************)
\* a socket is open only while the handler is between its dial and its
\* end; a handler that has ended has closed the socket it opened, and one
\* whose dial failed never had one
SocketInv ==
  /\ conn = "open" => cpc \in {"write", "first", "collect", "rebuild", "deliver"}
  /\ HandlerEnded => conn # "open"
  /\ (cpc = "done" /\ err # "dial") => conn = "closed"
  /\ (cpc = "done" /\ err = "dial") => conn = "none"

\* the socket is opened once, from no socket, and closed once
SocketStep ==
  conn' # conn
    => \/ conn = "none" /\ conn' = "open" /\ cpc = "dial"
       \/ conn = "open" /\ conn' = "closed" /\ cpc' \in {"done", "panic"}

\* C21 - socket release: an invocation of the handler opens at most one
\* upstream socket, and on whatever path the handler has ended (delivery,
\* pass-through, write error, failed or timed-out read, missing fragment)
\* that socket is closed.
SocketReleased == []SocketInv /\ [][SocketStep]_vars

\* the read deadline expired while fragments were being collected, and the
\* socket is closed
SocketReleasedWitness ==
  /\ cpc = "done" /\ err = "read"
  /\ num_frags = 3 /\ Cardinality(DOMAIN frags) = 2
  /\ conn = "closed"


(***************************************************************************)
(* Parsing of the descriptor (checked under Spec).                         *)
(***************************************************************************)
\* C23 - descriptor parsing is total: for every matching-ID response read,
\* whatever its OPT carries, get_fragment_info returns (-1, -1) or the
\* option's (total, seq), and the handler is never aborted by it.
DescriptorParsingTotal ==
  /\ cpc # "panic"
  /\ \A m \in arrived :
       LET info == get_fragment_info(m) IN
       /\ ~info.panic
       /\ \/ info.num_frags = -1 /\ info.sequence_num = -1
          \/ /\ Descriptors(m) # <<>>
             /\ <<info.num_frags, info.sequence_num>> = Descriptors(m)[1].Data


(***************************************************************************)
(* Two handlers of the client proxy at once.  The server of the dns        *)
(* library starts ClientProxy.ServeDNS once per query, each invocation     *)
(* with its own locals (proxy_req, conn, frags, ...); the receiver is      *)
(* passed by value and the handler writes none of its fields.  The server  *)
(* proxy answers each query to the address it came from.                   *)
(***************************************************************************)
\* the two invocations
Handlers == {1, 2}

\* frag as a function of the reply: the loop of lines 113-183 from the
\* queues ra, rn, re on, acc the fragments made so far, then the fix-up
RECURSIVE PackAll(_, _, _, _, _, _)
PackAll(reply, opt, ra, rn, re, acc) ==
  LET p == PackFragment(reply, opt, ra, rn, re) IN
  IF NoProgress(p.f) THEN <<TruncatedReply(p.f)>>
  ELSE LET fs == Append(acc, p.f) IN
       IF p.ra = <<>> /\ p.rn = <<>> /\ p.re = <<>>
       THEN [n \in DOMAIN fs |-> FixFragment(fs[n], Descriptor(Len(fs), n - 1))]
       ELSE PackAll(reply, opt, p.ra, p.rn, p.re, fs)

\* frag (lines 72-197): no message for a reply without OPT
frag(reply) ==
  LET ps == OptPositions(reply.Extra) IN
  IF ps = {} THEN <<>>
  ELSE PackAll(reply, reply.Extra[Least(ps)], reply.Answer, reply.Ns,
               RemoveAt(reply.Extra, Least(ps)), <<>>)

\* ServerProxy.ServeDNS as a function of the query q and the backend's
\* reply r: the messages written back (lines 200-246)
ServeDNS(q, r) == IF HasCapability(q) THEN frag(r) ELSE <<r>>

\* the backend's reply to the query of transaction h: two answers of its
\* own, too long for one fragment
TwoReply(q, h) ==
  [Id |-> q.Id, Response |-> TRUE, Truncated |-> FALSE, Rcode |-> 0,
   Question |-> q.Question,
   Answer |-> <<MkRR(10 * h + 1, 368), MkRR(10 * h + 2, 368)>>,
   Ns |-> <<>>, Extra |-> <<MkOPT(4096, <<>>)>>]

\* one socket shared by all invocations (conn kept in a field of the proxy
\* and dialled once)
DialTimeout_Shared(h) == 1

\* dns.DialTimeout (line 105): a new UDP socket for each invocation
DialTimeout(h) == h

\* lines 86-124 of invocation h: the query is marked, a socket dialled and
\* the query written to it
TwoWrite(h) ==
  /\ hpc[h] = "start"
  /\ hconn' = [hconn EXCEPT ![h] = DialTimeout(h)]
  /\ wire' = wire \cup {[q |-> MarkQuery(hq[h]), from |-> hconn'[h], of |-> h]}
  /\ hpc' = [hpc EXCEPT ![h] = "first"]
  /\ UNCHANGED <<hq, hnum, hfrags, hread, hout, inbox>>
  /\ UNCHANGED <<svars, cvars>>

\* the server proxy handles one query: capability scan, exchange with the
\* backend, and the reply or its fragments written to the query's sender
TwoServe ==
  /\ \E p \in wire :
       LET ms == ServeDNS(p.q, TwoReply(ConsumeCapability(p.q), p.of)) IN
       /\ wire' = wire \ {p}
       /\ inbox' = [inbox EXCEPT ![p.from] =
                      @ \cup {[msg |-> ms[i], of |-> p.of] : i \in DOMAIN ms}]
  /\ UNCHANGED <<hq, hpc, hconn, hnum, hfrags, hread, hout>>
  /\ UNCHANGED <<svars, cvars>>

\* conn.ReadMsg of invocation h fails or its deadline expires (lines 49-53)
TwoReadError(h) ==
  /\ hpc[h] \in {"first", "collect"}
  /\ hout' = [hout EXCEPT ![h] = Append(@, SRVFAIL(hq[h]))]
  /\ hpc' = [hpc EXCEPT ![h] = "done"]
  /\ UNCHANGED <<hq, hconn, hnum, hfrags, hread, wire, inbox>>
  /\ UNCHANGED <<svars, cvars>>

\* invocation h reads its first response from its socket (lines 127-142); a
\* response to another QID is ignored (lines 59-60)
TwoReadFirst(h) ==
  /\ hpc[h] = "first"
  /\ \E d \in inbox[hconn[h]] :
       /\ inbox' = [inbox EXCEPT ![hconn[h]] = @ \ {d}]
       /\ hread' = [hread EXCEPT ![h] = @ \cup {d}]
       /\ LET info == get_fragment_info(d.msg) IN
          IF d.msg.Id # hq[h].Id
          THEN UNCHANGED <<hpc, hnum, hfrags, hout>>
          ELSE IF info.panic
          THEN /\ hpc' = [hpc EXCEPT ![h] = "panic"]
               /\ UNCHANGED <<hnum, hfrags, hout>>
          ELSE IF info.num_frags = -1
          THEN /\ hout' = [hout EXCEPT ![h] = Append(@, d.msg)]
               /\ hpc' = [hpc EXCEPT ![h] = "done"]
               /\ UNCHANGED <<hnum, hfrags>>
          ELSE /\ hnum' = [hnum EXCEPT ![h] = info.num_frags]
               /\ hfrags' = [hfrags EXCEPT ![h] =
                               StoreFragment(<<>>, info.sequence_num, d.msg)]
               /\ hpc' = [hpc EXCEPT ![h] =
                            IF 1 < info.num_frags THEN "collect" ELSE "rebuild"]
               /\ hout' = hout
  /\ UNCHANGED <<hq, hconn, wire>>
  /\ UNCHANGED <<svars, cvars>>

\* invocation h reads one more response while len(frags) < num_frags
\* (lines 146-154)
TwoReadNext(h) ==
  /\ hpc[h] = "collect"
  /\ \E d \in inbox[hconn[h]] :
       /\ inbox' = [inbox EXCEPT ![hconn[h]] = @ \ {d}]
       /\ hread' = [hread EXCEPT ![h] = @ \cup {d}]
       /\ LET info == get_fragment_info(d.msg) IN
          IF d.msg.Id # hq[h].Id
          THEN UNCHANGED <<hpc, hfrags>>
          ELSE IF info.panic
          THEN /\ hpc' = [hpc EXCEPT ![h] = "panic"]
               /\ hfrags' = hfrags
          ELSE /\ hfrags' = [hfrags EXCEPT ![h] =
                               StoreFragment(@, info.sequence_num, d.msg)]
               /\ hpc' = [hpc EXCEPT ![h] =
                            IF Cardinality(DOMAIN hfrags'[h]) < hnum[h]
                            THEN "collect" ELSE "rebuild"]
  /\ UNCHANGED <<hq, hconn, hnum, hout, wire>>
  /\ UNCHANGED <<svars, cvars>>

\* invocation h rebuilds and delivers its reply, or SERVFAIL if a fragment
\* is missing (lines 157-191)
TwoRebuild(h) ==
  /\ hpc[h] = "rebuild"
  /\ hout' = [hout EXCEPT ![h] =
                Append(@, IF Wanted(hnum[h]) \subseteq DOMAIN hfrags[h]
                          THEN EnforceBuffer(
                                 Stitch(MapGet(hfrags[h], 0), hfrags[h], 1, hnum[h]),
                                 ClientBufSize(hq[h]))
                          ELSE SRVFAIL(hq[h]))]
  /\ hpc' = [hpc EXCEPT ![h] = "done"]
  /\ UNCHANGED <<hq, hconn, hnum, hfrags, hread, wire, inbox>>
  /\ UNCHANGED <<svars, cvars>>

TwoNext ==
  \/ \E h \in Handlers : TwoWrite(h)
  \/ TwoServe
  \/ \E h \in Handlers : TwoReadError(h)
  \/ \E h \in Handlers : TwoReadFirst(h)
  \/ \E h \in Handlers : TwoReadNext(h)
  \/ \E h \in Handlers : TwoRebuild(h)

\* the stubs' queries: an OPT advertising 4096, the same query ID or two
\* different ones
TwoQueries ==
  {[h \in Handlers |-> [MkQuery(<<MkOPT(4096, <<>>)>>) EXCEPT !.Id = QId + d[h]]] :
     d \in {<<0, 0>>, <<0, 1>>}}

InitTwo ==
  /\ hq \in TwoQueries
  /\ hpc = [h \in Handlers |-> "start"]
  /\ hconn = [h \in Handlers |-> 0]
  /\ hnum = [h \in Handlers |-> -1]
  /\ hfrags = [h \in Handlers |-> <<>>]
  /\ hread = [h \in Handlers |-> {}]
  /\ hout = [h \in Handlers |-> <<>>]
  /\ wire = {}
  /\ inbox = [s \in Handlers |-> {}]
  /\ srv_in = NoMsg /\ request = NoMsg /\ spc = "idle"
  /\ ServerIdle
  /\ ClientOff

SpecTwo == InitTwo /\ [][TwoNext]_vars

\* the messages stored in the frags map of invocation h
StoredBy(h) == {hfrags[h][n] : n \in DOMAIN hfrags[h]}

\* the RRs the backend gave in reply to the query of transaction h
AnswersOf(h) == {MkRR(10 * h + 1, 368), MkRR(10 * h + 2, 368)}

\* C22 - transaction isolation: with two handlers running at the same
\* time, with the same query ID or not, a handler reads from the socket it
\* dialled and no other, every datagram it reads was sent in reply to its
\* own query, and its frags map and the message it delivers hold RRs of its
\* own reply only, for every interleaving.
TransactionIsolation ==
  \A h \in Handlers :
    /\ \A g \in Handlers : (g # h /\ hconn[g] # 0) => hconn[g] # hconn[h]
    /\ \A d \in hread[h] : d.of = h
    /\ \A m \in StoredBy(h) : Range(m.Answer) \subseteq AnswersOf(h)
    /\ \A i \in DOMAIN hout[h] : Range(hout[h][i].Answer) \subseteq AnswersOf(h)

\* two handlers with the same query ID: the first has read its two
\* fragments and delivered its complete reply while the second, one
\* fragment stored, is still collecting with a datagram waiting
TransactionIsolationWitness ==
  /\ hq[1].Id = hq[2].Id
  /\ hpc[1] = "done" /\ Len(hout[1]) = 1
  /\ Range(hout[1][1].Answer) = AnswersOf(1)
  /\ Cardinality(hread[1]) = 2
  /\ hpc[2] = "collect" /\ Cardinality(DOMAIN hfrags[2]) = 1
  /\ inbox[hconn[2]] # {}

====
